---- MODULE Spec2Model ----
(***************************************************************************)
(* State-diff tracer of eth/tracers/native (StateDiffTracer): the diff     *)
(* store, its event handlers and the report generator, driven by the       *)
(* ordered event stream of one traced transaction.                          *)
(*                                                                         *)
(* The call-frame tracer (callTracer) and the committed state (vm.StateDB) *)
(* are collaborators whose code is not part of the sources; they are       *)
(* modelled from the specification's interface section.                     *)
(***************************************************************************)
EXTENDS Integers, Sequences, FiniteSets, TLC

VARIABLES
    accounts,    \* l.accounts: map[common.Address]accountDiff
    env,         \* l.env: "nil" until CaptureStart stores the EVM
    callstack,   \* l.tracer.callstack ([]callFrame, length 1 at construction)
    gasLimit,    \* l.tracer.gasLimit
    st,          \* committed state read through l.env.StateDB
    snaps,       \* the host's state snapshots, one per open frame
    pc,          \* position in the event stream
    result,      \* what GetResult returned ("stateDiff" mapping)
    nevents,     \* nested frames entered and opcode/fault events so far
    last,        \* history: the event just delivered
    top,         \* history: the arguments of CaptureStart
    touched,     \* history: accounts named by a recorded event
    created,     \* history: creation frames per initiating account
    attributed,  \* history: value/self-destruct amounts per account
    gasCharge,   \* history: gasLimit - restGas of the transaction end
    firstCode,   \* history: state code of an account when first touched
    firstSlot,   \* history: state value of a slot at its first SSTORE
    codeEvents,  \* history: completed creation / self-destruct frames
    logAccounts, \* StateDiffLogger.accounts (the snapshot logger's store)
    logDb,       \* the state handle the snapshot logger's hook works on
    logMoved,    \* history: net amount moved per account through that hook
    logFirst,    \* history: balance of an account before its first transfer
    openFrames   \* history: arguments of the CaptureEnter calls not yet exited

vars == <<accounts, env, callstack, gasLimit, st, snaps, pc, result, nevents,
          last, top, touched, created, attributed, gasCharge, firstCode,
          firstSlot, codeEvents, logAccounts, logDb, logMoved, logFirst,
          openFrames>>

(* the fields of the snapshot logger, which the tracer's handlers never touch *)
hookVars == <<logAccounts, logDb, logMoved, logFirst>>

----------------------------------------------------------------------------
(* Bounds of the model *)

NumAddr == 3
MaxHash == 1
MaxValue == 1
MaxGas == 1
MaxEvents == 2

Addr == 1..NumAddr
Hash == 0..MaxHash

(* vm.OpCode values used by the tracer *)
CALL == "CALL"
CREATE == "CREATE"
CREATE2 == "CREATE2"
SELFDESTRUCT == "SELFDESTRUCT"
STATICCALL == "STATICCALL"
SSTORE == "SSTORE"
SLOAD == "SLOAD"

(* A nil *big.Int and a nil []byte, told apart from 0 and from []byte{} *)
NilInt == -1
NilBytes == <<-1>>
EmptyBytes == <<>>

(* Byte sequences used as contract code and as creation input *)
CodeP == <<171, 205>>
CodeR == <<96>>
InitCode == <<254>>

----------------------------------------------------------------------------
(* Rendering: strings are sequences of one-character strings *)

HexChars == <<"0", "1", "2", "3", "4", "5", "6", "7", "8", "9",
              "a", "b", "c", "d", "e", "f">>

HexChar(d) == HexChars[d + 1]

HexVal(c) == CHOOSE d \in 0..15 : HexChars[d + 1] = c

RECURSIVE HexDigits(_)
(* strconv-style base-16 digits of a natural number, no leading zeros *)
HexDigits(n) ==
    IF n < 16 THEN <<HexChar(n)>>
    ELSE HexDigits(n \div 16) \o <<HexChar(n % 16)>>

(* big.Int.Text(16) *)
Text16(n) == IF n < 0 THEN <<"-">> \o HexDigits(-n) ELSE HexDigits(n)

(* the byte value of a character that Text(16) can produce *)
Ascii(c) == IF c = "-" THEN 45
            ELSE IF HexVal(c) < 10 THEN 48 + HexVal(c) ELSE 87 + HexVal(c)

RECURSIVE EncodeToString(_)
(* hex.EncodeToString: two lowercase digits per byte; "" for nil or empty *)
EncodeToString(b) ==
    IF b = NilBytes \/ b = <<>> THEN <<>>
    ELSE <<HexChar(Head(b) \div 16), HexChar(Head(b) % 16)>>
         \o EncodeToString(Tail(b))

RECURSIVE StringBytes(_)
StringBytes(s) ==
    IF s = <<>> THEN <<>> ELSE <<Ascii(Head(s))>> \o StringBytes(Tail(s))

(* fmt.Sprintf("0x%x", s) with s a string: %x hex-encodes the string's bytes *)
SprintfHexString(s) == <<"0", "x">> \o EncodeToString(StringBytes(s))

RECURSIVE DigitAt(_, _)
(* the base-16 digit of n at position p, position 0 the least significant *)
DigitAt(n, p) ==
    IF n = 0 THEN 0 ELSE IF p = 0 THEN n % 16 ELSE DigitAt(n \div 16, p - 1)

(* the w low base-16 digits of n, most significant first *)
PadDigits(n, w) == [i \in 1..w |-> DigitAt(n, w - i)]

RECURSIVE StripZeros(_)
StripZeros(ds) ==
    IF Len(ds) > 1 /\ Head(ds) = 0 THEN StripZeros(Tail(ds)) ELSE ds

(* current - uint64(delta) in 64-bit unsigned arithmetic, as base-16 digits:  *)
(* below zero the difference wraps to 2^64 - (delta - current)               *)
U64SubDigits(current, delta) ==
    IF current >= delta THEN StripZeros(PadDigits(current - delta, 16))
    ELSE LET m == PadDigits(delta - current - 1, 16)
         IN  StripZeros([i \in 1..16 |-> 15 - m[i]])

(* fmt.Sprintf("0x%x", v) with v a uint64 given by its digits *)
SprintfHexDigits(ds) == <<"0", "x">> \o [i \in 1..Len(ds) |-> HexChar(ds[i])]

(* common.Hash.Hex(): 0x and 64 digits; common.Address.Hex(): 0x and 40      *)
HashHex(h) == <<"0", "x">> \o [i \in 1..64 |-> HexChar(PadDigits(h, 64)[i])]

AddrHex(a) == <<"0", "x">> \o [i \in 1..40 |-> HexChar(PadDigits(a, 40)[i])]

----------------------------------------------------------------------------
(* Committed state (vm.StateDB), read through l.env.StateDB *)

GetBalance(s, addr) == s.balance[addr]

GetNonce(s, addr) == s.nonce[addr]

GetCode(s, addr) == s.code[addr]

GetState(s, addr, key) == s.storage[addr][key]

InitBalance == 16

(* account 1 is an externally owned account, account 2 a deployed contract,  *)
(* every further account is empty                                            *)
InitState ==
    [balance |-> [a \in Addr |-> IF a <= 2 THEN InitBalance ELSE 0],
     nonce   |-> [a \in Addr |-> 0],
     code    |-> [a \in Addr |-> IF a = 2 THEN CodeP ELSE NilBytes],
     storage |-> [a \in Addr |-> [k \in Hash |-> k]]]

(* What the host does to the state around the hooks *)

IsCreate(typ) == typ = CREATE \/ typ = CREATE2

(* a creation needs an address without code and without nonce *)
CanCreate(s, from, to) ==
    to # from /\ GetCode(s, to) = NilBytes /\ GetNonce(s, to) = 0

(* a frame runs code when it is a constructor or its account holds code *)
Executes(s, frame) ==
    IsCreate(frame.Type)
    \/ (frame.Type \in {CALL, STATICCALL} /\ GetCode(s, frame.To) # NilBytes)

hostTransfer(s, from, to, value) ==
    IF value = NilInt \/ value = 0 THEN s
    ELSE LET b1 == [s.balance EXCEPT ![from] = @ - value]
         IN  [s EXCEPT !.balance = [b1 EXCEPT ![to] = @ + value]]

hostNonce(s, addr) == [s EXCEPT !.nonce[addr] = @ + 1]

(* before CaptureStart: gas is bought and the sender's nonce is bumped *)
hostBegin(s, from, gas) ==
    hostNonce([s EXCEPT !.balance[from] = @ - gas], from)

(* before CaptureEnter: a creation bumps the creator's nonce *)
hostEnter(s, typ, from) == IF IsCreate(typ) THEN hostNonce(s, from) ELSE s

(* after CaptureState: the opcode executes, unless the frame is static *)
hostSStore(s, frameType, addr, key, value) ==
    IF frameType = STATICCALL THEN s
    ELSE [s EXCEPT !.storage[addr][key] = value]

(* before CaptureExit/CaptureEnd: a failed frame is reverted to its snapshot, *)
(* a successful creation has stored the deployed code                         *)
hostLeave(s, snap, typ, to, err, deployed) ==
    IF err THEN snap
    ELSE IF IsCreate(typ) THEN [s EXCEPT !.code[to] = deployed]
    ELSE s

(* after CaptureExit of a self-destruct: the account is emptied *)
hostDestruct(s, typ, to, err) ==
    IF typ = SELFDESTRUCT /\ ~err
    THEN [s EXCEPT !.balance[to] = 0, !.code[to] = NilBytes]
    ELSE s

(* after the execution: the unused gas is refunded to the sender *)
hostRefund(s, from, restGas) == [s EXCEPT !.balance[from] = @ + restGas]

----------------------------------------------------------------------------
(* Call-frame tracer (callTracer) *)

zeroFrame ==
    [Type |-> "STOP", From |-> 0, To |-> 0, Value |-> NilInt,
     Input |-> NilBytes, GasUsed |-> 0, Error |-> FALSE, Calls |-> <<>>]

newFrame(typ, from, to, input, value) ==
    [Type |-> typ, From |-> from, To |-> to, Value |-> value,
     Input |-> input, GasUsed |-> 0, Error |-> FALSE, Calls |-> <<>>]

tracerCaptureStart(cs, from, to, create, input, value) ==
    [cs EXCEPT ![1] = newFrame(IF create THEN CREATE ELSE CALL,
                               from, to, input, value)]

tracerCaptureEnd(cs, err) == [cs EXCEPT ![1].Error = err]

tracerCaptureEnter(cs, typ, from, to, input, value) ==
    Append(cs, newFrame(typ, from, to, input, value))

tracerCaptureExit(cs, gasUsed, err) ==
    LET size == Len(cs)
        call == [cs[size] EXCEPT !.GasUsed = gasUsed, !.Error = err]
    IN  IF size <= 1 THEN cs
        ELSE [SubSeq(cs, 1, size - 1) EXCEPT
                 ![size - 1].Calls = Append(@, call)]

tracerCaptureTxEnd(cs, limit, restGas) ==
    [cs EXCEPT ![1].GasUsed = limit - restGas]

----------------------------------------------------------------------------
(* Diff store *)

newAccountDiff ==
    [balanceDelta |-> 0, nonceDelta |-> 0, storage |-> <<>>,
     code |-> [before |-> NilBytes, after |-> NilBytes]]

(* tryInitAccDiff without the test for an existing entry *)
tryInitAccDiffOverwrite(acc, addr) ==
    [accounts |-> (addr :> newAccountDiff) @@ acc,
     ok |-> addr \notin DOMAIN acc]

tryInitAccDiff(acc, addr) ==
    IF addr \notin DOMAIN acc
    THEN [accounts |-> (addr :> newAccountDiff) @@ acc, ok |-> TRUE]
    ELSE [accounts |-> acc, ok |-> FALSE]

recordNonceIncrese(acc, addr) ==
    LET a1 == tryInitAccDiff(acc, addr).accounts
    IN  [a1 EXCEPT ![addr].nonceDelta = @ + 1]

recordCode(acc, s, addr, code) ==
    LET init == tryInitAccDiff(acc, addr)
        a1 == init.accounts
        beforeCode == IF GetCode(s, addr) = NilBytes THEN EmptyBytes
                      ELSE GetCode(s, addr)
        before == IF init.ok THEN beforeCode ELSE a1[addr].code.before
    IN  [a1 EXCEPT ![addr].code = [before |-> before, after |-> code]]

(* recordStorage with the first-touch guard dropped: before is re-read *)
recordStorageRecapture(acc, s, addr, key, after) ==
    LET a1 == tryInitAccDiff(acc, addr).accounts
        value == [before |-> GetState(s, addr, key), after |-> after]
    IN  [a1 EXCEPT ![addr].storage = (key :> value) @@ @]

recordStorage(acc, s, addr, key, after) ==
    LET init == tryInitAccDiff(acc, addr)
        a1 == init.accounts
        old == IF key \in DOMAIN a1[addr].storage
               THEN a1[addr].storage[key]
               ELSE [before |-> 0, after |-> 0]
        value == [before |-> IF init.ok THEN GetState(s, addr, key)
                             ELSE old.before,
                  after |-> after]
    IN  [a1 EXCEPT ![addr].storage = (key :> value) @@ @]

recordBalanceChange(acc, addr, delta) ==
    LET a1 == tryInitAccDiff(acc, addr).accounts
    IN  [a1 EXCEPT ![addr].balanceDelta = @ + delta]

----------------------------------------------------------------------------
(* Event handlers of StateDiffTracer: each yields the tracer's new fields *)

CaptureTxStart(limit) == limit

CaptureStart(acc, cs, from, to, create, input, value) ==
    [accounts  |-> IF create THEN recordNonceIncrese(acc, from) ELSE acc,
     callstack |-> tracerCaptureStart(cs, from, to, create, input, value)]

CaptureEnter(acc, cs, typ, from, to, input, value) ==
    [accounts  |-> IF typ = CREATE \/ typ = CREATE2
                   THEN recordNonceIncrese(acc, from) ELSE acc,
     callstack |-> tracerCaptureEnter(cs, typ, from, to, input, value)]

(* the ether transfer recorded on the recipient only *)
etherTransferCreditOnly(acc, callframe) ==
    IF callframe.Value # NilInt
    THEN recordBalanceChange(acc, callframe.To, callframe.Value)
    ELSE acc

(* the "ether transfer" part shared by CaptureEnd and CaptureExit *)
etherTransfer(acc, callframe) ==
    IF callframe.Value # NilInt
    THEN recordBalanceChange(
             recordBalanceChange(acc, callframe.From, 0 - callframe.Value),
             callframe.To, callframe.Value)
    ELSE acc

CaptureEnd(acc, cs, s, gasUsed, err) ==
    LET cs1 == tracerCaptureEnd(cs, err)
        callframe == cs1[1]
        opType == callframe.Type
        acc1 == IF opType = CREATE \/ opType = CREATE2
                THEN recordCode(acc, s, callframe.To, GetCode(s, callframe.To))
                ELSE acc
    IN  [accounts  |-> IF opType \in {CREATE, CREATE2, CALL}
                       THEN etherTransfer(acc1, callframe) ELSE acc,
         callstack |-> cs1]

(* CaptureExit that also charges the frame's gasUsed to the frame's caller *)
CaptureExitGasPerFrame(acc, cs, s, gasUsed, err) ==
    LET cs1 == tracerCaptureExit(cs, gasUsed, err)
        lastCallStack == cs1[Len(cs1)].Calls
        callframe == lastCallStack[Len(lastCallStack)]
        opType == callframe.Type
        acc0 == recordBalanceChange(acc, callframe.From, 0 - gasUsed)
        acc1 == IF opType = CREATE \/ opType = CREATE2
                THEN recordCode(acc0, s, callframe.To, callframe.Input)
                ELSE acc0
        contract == callframe.To
    IN  [accounts  |->
             IF opType \in {CREATE, CREATE2, CALL}
             THEN etherTransfer(acc1, callframe)
             ELSE IF opType = SELFDESTRUCT
             THEN recordBalanceChange(
                      recordCode(acc0, s, contract, EmptyBytes),
                      contract, 0 - GetBalance(s, contract))
             ELSE acc0,
         callstack |-> cs1]

(* CaptureExit that records nothing for a frame that failed *)
CaptureExitSkipFailed(acc, cs, s, gasUsed, err) ==
    LET cs1 == tracerCaptureExit(cs, gasUsed, err)
        lastCallStack == cs1[Len(cs1)].Calls
        callframe == lastCallStack[Len(lastCallStack)]
        opType == callframe.Type
        acc1 == IF opType = CREATE \/ opType = CREATE2
                THEN recordCode(acc, s, callframe.To, callframe.Input)
                ELSE acc
        contract == callframe.To
    IN  [accounts  |->
             IF err THEN acc
             ELSE IF opType \in {CREATE, CREATE2, CALL}
             THEN etherTransfer(acc1, callframe)
             ELSE IF opType = SELFDESTRUCT
             THEN recordBalanceChange(
                      recordCode(acc, s, contract, EmptyBytes),
                      contract, 0 - GetBalance(s, contract))
             ELSE acc,
         callstack |-> cs1]

(* CaptureExit that reads the first frame of the parent's Calls, not the last *)
CaptureExitFirstSibling(acc, cs, s, gasUsed, err) ==
    LET cs1 == tracerCaptureExit(cs, gasUsed, err)
        lastCallStack == cs1[Len(cs1)].Calls
        callframe == lastCallStack[1]
        opType == callframe.Type
        acc1 == IF opType = CREATE \/ opType = CREATE2
                THEN recordCode(acc, s, callframe.To, callframe.Input)
                ELSE acc
        contract == callframe.To
    IN  [accounts  |->
             IF opType \in {CREATE, CREATE2, CALL}
             THEN etherTransfer(acc1, callframe)
             ELSE IF opType = SELFDESTRUCT
             THEN recordBalanceChange(
                      recordCode(acc, s, contract, EmptyBytes),
                      contract, 0 - GetBalance(s, contract))
             ELSE acc,
         callstack |-> cs1]

CaptureExit(acc, cs, s, gasUsed, err) ==
    LET cs1 == tracerCaptureExit(cs, gasUsed, err)
        lastCallStack == cs1[Len(cs1)].Calls
        callframe == lastCallStack[Len(lastCallStack)]
        opType == callframe.Type
        acc1 == IF opType = CREATE \/ opType = CREATE2
                THEN recordCode(acc, s, callframe.To, callframe.Input)
                ELSE acc
        contract == callframe.To
    IN  [accounts  |->
             IF opType \in {CREATE, CREATE2, CALL}
             THEN etherTransfer(acc1, callframe)
             ELSE IF opType = SELFDESTRUCT
             THEN recordBalanceChange(
                      recordCode(acc, s, contract, EmptyBytes),
                      contract, 0 - GetBalance(s, contract))
             ELSE acc,
         callstack |-> cs1]

CaptureFault(acc) == acc

(* CaptureState that also records an SSTORE seen with a single operand *)
CaptureStateShortStack(acc, s, op, contract, stack) ==
    LET stackLen == Len(stack)
    IN  IF op = SSTORE /\ stackLen >= 1
        THEN recordStorage(acc, s, contract, stack[stackLen],
                           IF stackLen >= 2 THEN stack[stackLen - 1] ELSE 0)
        ELSE acc

(* CaptureState that reads the two operands in the opposite order *)
CaptureStateSwapped(acc, s, op, contract, stack) ==
    LET stackLen == Len(stack)
    IN  IF op = SSTORE /\ stackLen >= 2
        THEN recordStorage(acc, s, contract, stack[stackLen - 1],
                           stack[stackLen])
        ELSE acc

CaptureState(acc, s, op, contract, stack) ==
    LET stackLen == Len(stack)
    IN  IF op = SSTORE /\ stackLen >= 2
        THEN recordStorage(acc, s, contract, stack[stackLen],
                           stack[stackLen - 1])
        ELSE acc

(* CaptureTxEnd without the check of the top-level call's type *)
CaptureTxEndAlwaysNonce(acc, cs, limit, restGas) ==
    LET cs1 == tracerCaptureTxEnd(cs, limit, restGas)
        callFrame == cs1[1]
        caller == callFrame.From
        used == callFrame.GasUsed
        acc1 == recordBalanceChange(acc, caller, 0 - used)
    IN  [accounts  |-> recordNonceIncrese(acc1, caller),
         callstack |-> cs1]

CaptureTxEnd(acc, cs, limit, restGas) ==
    LET cs1 == tracerCaptureTxEnd(cs, limit, restGas)
        callFrame == cs1[1]
        caller == callFrame.From
        used == callFrame.GasUsed
        acc1 == recordBalanceChange(acc, caller, 0 - used)
    IN  [accounts  |-> IF callFrame.Type # CREATE
                       THEN recordNonceIncrese(acc1, caller) ELSE acc1,
         callstack |-> cs1]

----------------------------------------------------------------------------
(* Report generator *)

Unchanged == [eq |-> TRUE, From |-> <<>>, To |-> <<>>]

fromTo(from, to) == [eq |-> FALSE, From |-> from, To |-> to]

(* report's balance field without the Sign() != 0 test *)
reportBalanceNoSign(s, addr, a) ==
    LET current == GetBalance(s, addr)
    IN  fromTo(SprintfHexString(Text16(current - a.balanceDelta)),
               SprintfHexString(Text16(current)))

reportBalance(s, addr, a) ==
    IF a.balanceDelta # 0
    THEN LET current == GetBalance(s, addr)
         IN  fromTo(SprintfHexString(Text16(current - a.balanceDelta)),
                    SprintfHexString(Text16(current)))
    ELSE Unchanged

reportNonce(s, addr, a) ==
    IF a.nonceDelta # 0
    THEN LET current == GetNonce(s, addr)
         IN  fromTo(SprintfHexDigits(U64SubDigits(current, a.nonceDelta)),
                    SprintfHexDigits(U64SubDigits(current, 0)))
    ELSE Unchanged

reportCode(a) ==
    IF a.code.before # NilBytes \/ a.code.after # NilBytes
    THEN LET before == EncodeToString(a.code.before)
             after == EncodeToString(a.code.after)
         IN  IF before # after THEN fromTo(before, after) ELSE Unchanged
    ELSE Unchanged

(* report's storage loop without the before != after test *)
reportStorageAll(a) ==
    LET changed == DOMAIN a.storage
    IN  [h \in {HashHex(k) : k \in changed} |->
            LET key == CHOOSE k \in changed : HashHex(k) = h
            IN  [From |-> HashHex(a.storage[key].before),
                 To |-> HashHex(a.storage[key].after)]]

reportStorage(a) ==
    LET changed == {k \in DOMAIN a.storage :
                       HashHex(a.storage[k].before) # HashHex(a.storage[k].after)}
    IN  [h \in {HashHex(k) : k \in changed} |->
            LET key == CHOOSE k \in changed : HashHex(k) = h
            IN  [From |-> HashHex(a.storage[key].before),
                 To |-> HashHex(a.storage[key].after)]]

report(s, addr, a) ==
    [Balance |-> reportBalance(s, addr, a),
     Nonce   |-> reportNonce(s, addr, a),
     Code    |-> reportCode(a),
     Storage |-> reportStorage(a)]

(* GetResult that leaves out the accounts whose entry records no change *)
GetResultOnlyChanged(acc, s) ==
    LET kept == {x \in DOMAIN acc :
                    \/ acc[x].balanceDelta # 0
                    \/ acc[x].nonceDelta # 0
                    \/ acc[x].code.after # NilBytes
                    \/ DOMAIN acc[x].storage # {}}
    IN  [h \in {AddrHex(x) : x \in kept} |->
            LET addr == CHOOSE x \in kept : AddrHex(x) = h
            IN  report(s, addr, acc[addr])]

GetResult(acc, s) ==
    [h \in {AddrHex(x) : x \in DOMAIN acc} |->
        LET addr == CHOOSE x \in DOMAIN acc : AddrHex(x) = h
        IN  report(s, addr, acc[addr])]

----------------------------------------------------------------------------
(* The event stream of one traced transaction *)

NoEvent ==
    [ev |-> "none", typ |-> "STOP", from |-> 0, to |-> 0, value |-> NilInt,
     err |-> FALSE, key |-> 0, val |-> 0, n |-> 0, seen |-> FALSE]

frameEvent(ev, f, err) ==
    [ev |-> ev, typ |-> f.Type, from |-> f.From, to |-> f.To,
     value |-> f.Value, err |-> err, key |-> 0, val |-> 0, n |-> 0,
     seen |-> FALSE]

opEvent(ev, op, contract, stack, seen) ==
    LET stored == op = SSTORE /\ Len(stack) >= 2
    IN  [ev |-> ev, typ |-> op, from |-> 0, to |-> contract, value |-> NilInt,
         err |-> FALSE,
         key |-> IF stored THEN stack[Len(stack)] ELSE 0,
         val |-> IF stored THEN stack[Len(stack) - 1] ELSE 0,
         n |-> IF stored THEN 2 ELSE 0,
         seen |-> stored /\ seen]

Stacks == UNION {[1..n -> Hash] : n \in 0..2}

DeployedCodes == {CodeR}

(* the open frame on top of the call stack, and the contract it executes *)
current == callstack[Len(callstack)]

(* history: the state code of every account whose entry the step creates *)
firstCodeAfter(acc1, s) ==
    [a \in Addr |->
        IF a \in DOMAIN acc1 /\ a \notin DOMAIN accounts
        THEN (IF GetCode(s, a) = NilBytes THEN EmptyBytes ELSE GetCode(s, a))
        ELSE firstCode[a]]

(* history: the accounts and amounts a completed frame's records name *)
frameTouches(f) ==
    (IF IsCreate(f.Type) \/ f.Type = SELFDESTRUCT THEN {f.To} ELSE {})
    \cup (IF (IsCreate(f.Type) \/ f.Type = CALL) /\ f.Value # NilInt
          THEN {f.From, f.To} ELSE {})

frameAmount(f, s, a) ==
    IF (IsCreate(f.Type) \/ f.Type = CALL) /\ f.Value # NilInt
    THEN (IF a = f.To THEN f.Value ELSE 0) - (IF a = f.From THEN f.Value ELSE 0)
    ELSE IF f.Type = SELFDESTRUCT /\ a = f.To THEN 0 - GetBalance(s, a)
    ELSE 0

codeEvent(f, s, nested, err) ==
    [kind |-> f.Type, nested |-> nested, from |-> f.From, to |-> f.To,
     err |-> err, code |-> GetCode(s, f.To), input |-> f.Input,
     balance |-> GetBalance(s, f.To), fresh |-> f.To \notin DOMAIN accounts]

Init ==
    /\ accounts = <<>>
    /\ env = "nil"
    /\ callstack = <<zeroFrame>>
    /\ gasLimit = 0
    /\ st = InitState
    /\ snaps = <<>>
    /\ pc = "new"
    /\ result = <<>>
    /\ nevents = 0
    /\ last = NoEvent
    /\ top = [from |-> 0, to |-> 0, create |-> FALSE, value |-> NilInt]
    /\ touched = {}
    /\ created = [a \in Addr |-> 0]
    /\ attributed = [a \in Addr |-> 0]
    /\ gasCharge = 0
    /\ firstCode = [a \in Addr |-> NilBytes]
    /\ firstSlot = [a \in Addr |-> [k \in Hash |-> -1]]
    /\ codeEvents = <<>>
    /\ logAccounts = <<>>
    /\ logDb = InitState
    /\ logMoved = [a \in Addr |-> 0]
    /\ logFirst = [a \in Addr |-> NilInt]
    /\ openFrames = <<>>

TxStart ==
    /\ UNCHANGED openFrames
    /\ UNCHANGED hookVars
    /\ pc = "new"
    /\ \E limit \in 1..MaxGas :
        gasLimit' = CaptureTxStart(limit)
    /\ pc' = "txstarted"
    /\ last' = [NoEvent EXCEPT !.ev = "TxStart"]
    /\ UNCHANGED <<accounts, env, callstack, st, snaps, result, nevents, top, touched, created, attributed, gasCharge, firstCode,
                   firstSlot, codeEvents>>

Start ==
    /\ UNCHANGED openFrames
    /\ UNCHANGED hookVars
    /\ pc = "txstarted"
    /\ \E from \in Addr, to \in Addr, create \in BOOLEAN, value \in 0..MaxValue :
        LET input == IF create THEN InitCode ELSE EmptyBytes
            s0 == hostBegin(st, from, gasLimit)
            s1 == hostTransfer(s0, from, to, value)
            h == CaptureStart(accounts, callstack, from, to, create, input, value)
        IN  /\ GetBalance(st, from) >= gasLimit + value
            /\ GetCode(st, from) = NilBytes
            /\ create => CanCreate(s0, from, to)
            /\ env' = "evm"
            /\ accounts' = h.accounts
            /\ callstack' = h.callstack
            /\ st' = s1
            /\ snaps' = <<s0>>
            /\ top' = [from |-> from, to |-> to, create |-> create,
                       value |-> value]
            /\ last' = frameEvent("Start", h.callstack[1], FALSE)
            /\ touched' = touched \cup (IF create THEN {from} ELSE {})
            /\ created' = [created EXCEPT ![from] = @ + (IF create THEN 1 ELSE 0)]
            /\ firstCode' = firstCodeAfter(h.accounts, s1)
    /\ pc' = "running"
    /\ UNCHANGED <<gasLimit, result, nevents, attributed, gasCharge,
                   firstSlot, codeEvents>>

EnterArgs ==
    {<<CALL, to, v>> : to \in Addr, v \in 0..MaxValue}
    \cup {<<typ, to, v>> : typ \in {CREATE, CREATE2}, to \in Addr, v \in 0..MaxValue}
    \cup {<<STATICCALL, to, NilInt>> : to \in Addr}
    \cup {<<SELFDESTRUCT, current.To, NilInt>>}

Enter ==
    /\ UNCHANGED hookVars
    /\ pc = "running"
    /\ nevents < MaxEvents
    /\ Executes(st, current)
    /\ \E args \in EnterArgs :
        LET typ == args[1]
            from == current.To
            to == args[2]
            value == args[3]
            input == IF IsCreate(typ) THEN InitCode ELSE EmptyBytes
            s0 == hostEnter(st, typ, from)
            s1 == hostTransfer(s0, from, to, value)
            h == CaptureEnter(accounts, callstack, typ, from, to, input, value)
        IN  /\ GetBalance(st, from) >= value
            /\ IsCreate(typ) => CanCreate(st, from, to)
            /\ accounts' = h.accounts
            /\ callstack' = h.callstack
            /\ st' = s1
            /\ snaps' = Append(snaps, s0)
            /\ last' = frameEvent("Enter", h.callstack[Len(h.callstack)], FALSE)
            /\ openFrames' = Append(openFrames,
                   [typ |-> typ, from |-> from, to |-> to, value |-> value])
            /\ touched' = touched \cup (IF IsCreate(typ) THEN {from} ELSE {})
            /\ created' = [created EXCEPT
                              ![from] = @ + (IF IsCreate(typ) THEN 1 ELSE 0)]
            /\ firstCode' = firstCodeAfter(h.accounts, s1)
    /\ nevents' = nevents + 1
    /\ UNCHANGED <<env, gasLimit, pc, result, top, attributed, gasCharge,
                   firstSlot, codeEvents>>

Opcode ==
    /\ UNCHANGED openFrames
    /\ UNCHANGED hookVars
    /\ pc = "running"
    /\ nevents < MaxEvents
    /\ Executes(st, current)
    /\ \E op \in {SSTORE, SLOAD}, stack \in Stacks :
        LET contract == current.To
            acc1 == CaptureState(accounts, st, op, contract, stack)
            stored == op = SSTORE /\ Len(stack) >= 2
            key == stack[Len(stack)]
            value == stack[Len(stack) - 1]
        IN  /\ accounts' = acc1
            /\ st' = IF stored
                     THEN hostSStore(st, current.Type, contract, key, value)
                     ELSE st
            /\ last' = opEvent("State", op, contract, stack,
                                stored /\ firstSlot[contract][key] # -1)
            /\ touched' = touched \cup (IF stored THEN {contract} ELSE {})
            /\ firstCode' = firstCodeAfter(acc1, st)
            /\ firstSlot' = IF stored /\ firstSlot[contract][key] = -1
                            THEN [firstSlot EXCEPT ![contract][key] =
                                      GetState(st, contract, key)]
                            ELSE firstSlot
    /\ nevents' = nevents + 1
    /\ UNCHANGED <<env, callstack, gasLimit, snaps, pc, result, top,
                   created, attributed, gasCharge, codeEvents>>

Fault ==
    /\ UNCHANGED openFrames
    /\ UNCHANGED hookVars
    /\ pc = "running"
    /\ nevents < MaxEvents
    /\ Executes(st, current)
    /\ accounts' = CaptureFault(accounts)
    /\ last' = opEvent("Fault", SSTORE, current.To, <<>>, FALSE)
    /\ nevents' = nevents + 1
    /\ UNCHANGED <<env, callstack, gasLimit, st, snaps, pc, result, top, touched, created, attributed, gasCharge, firstCode,
                   firstSlot, codeEvents>>

Exit ==
    /\ UNCHANGED hookVars
    /\ pc = "running"
    /\ Len(callstack) > 1
    /\ \E err \in BOOLEAN, gasUsed \in 1..MaxGas, deployed \in DeployedCodes :
        LET f == current
            s1 == hostLeave(st, snaps[Len(snaps)], f.Type, f.To, err, deployed)
            h == CaptureExit(accounts, callstack, s1, gasUsed, err)
        IN  /\ accounts' = h.accounts
            /\ callstack' = h.callstack
            /\ st' = hostDestruct(s1, f.Type, f.To, err)
            /\ snaps' = SubSeq(snaps, 1, Len(snaps) - 1)
            /\ last' = frameEvent("Exit", f, err)
            /\ openFrames' = SubSeq(openFrames, 1, Len(openFrames) - 1)
            /\ touched' = touched \cup frameTouches(f)
            /\ attributed' = [a \in Addr |-> attributed[a] + frameAmount(f, s1, a)]
            /\ firstCode' = firstCodeAfter(h.accounts, s1)
            /\ codeEvents' = IF IsCreate(f.Type) \/ f.Type = SELFDESTRUCT
                             THEN Append(codeEvents, codeEvent(f, s1, TRUE, err))
                             ELSE codeEvents
    /\ UNCHANGED <<env, gasLimit, pc, result, nevents, top, created,
                   gasCharge, firstSlot>>

End ==
    /\ UNCHANGED openFrames
    /\ UNCHANGED hookVars
    /\ pc = "running"
    /\ Len(callstack) = 1
    /\ \E err \in BOOLEAN, gasUsed \in 1..MaxGas, deployed \in DeployedCodes :
        LET f == current
            s1 == hostLeave(st, snaps[1], f.Type, f.To, err, deployed)
            h == CaptureEnd(accounts, callstack, s1, gasUsed, err)
        IN  /\ accounts' = h.accounts
            /\ callstack' = h.callstack
            /\ st' = s1
            /\ snaps' = <<>>
            /\ last' = frameEvent("End", f, err)
            /\ touched' = touched \cup frameTouches(f)
            /\ attributed' = [a \in Addr |-> attributed[a] + frameAmount(f, s1, a)]
            /\ firstCode' = firstCodeAfter(h.accounts, s1)
            /\ codeEvents' = IF IsCreate(f.Type)
                             THEN Append(codeEvents, codeEvent(f, s1, FALSE, err))
                             ELSE codeEvents
    /\ pc' = "ended"
    /\ UNCHANGED <<env, gasLimit, result, nevents, top, created,
                   gasCharge, firstSlot>>

TxEnd ==
    /\ UNCHANGED openFrames
    /\ UNCHANGED hookVars
    /\ pc = "ended"
    /\ \E restGas \in 0..gasLimit :
        LET h == CaptureTxEnd(accounts, callstack, gasLimit, restGas)
        IN  /\ accounts' = h.accounts
            /\ callstack' = h.callstack
            /\ st' = hostRefund(st, top.from, restGas)
            /\ gasCharge' = gasLimit - restGas
            /\ firstCode' = firstCodeAfter(h.accounts, st)
    /\ pc' = "txended"
    /\ last' = [NoEvent EXCEPT !.ev = "TxEnd"]
    /\ touched' = touched \cup {top.from}
    /\ UNCHANGED <<env, gasLimit, snaps, result, nevents, top, created,
                   attributed, firstSlot, codeEvents>>

Report ==
    /\ UNCHANGED openFrames
    /\ UNCHANGED hookVars
    /\ pc = "txended"
    /\ result' = GetResult(accounts, st)
    /\ pc' = "done"
    /\ last' = [NoEvent EXCEPT !.ev = "GetResult"]
    /\ UNCHANGED <<accounts, env, callstack, gasLimit, st, snaps, nevents, top, touched, created, attributed, gasCharge, firstCode,
                   firstSlot, codeEvents>>

Next ==
    \/ TxStart
    \/ Start
    \/ Enter
    \/ Opcode
    \/ Fault
    \/ Exit
    \/ End
    \/ TxEnd
    \/ Report

Spec == Init /\ [][Next]_vars

----------------------------------------------------------------------------
(* Reading the diff store and the report *)

BalanceDelta(acc, a) == IF a \in DOMAIN acc THEN acc[a].balanceDelta ELSE 0

NonceDelta(acc, a) == IF a \in DOMAIN acc THEN acc[a].nonceDelta ELSE 0

Finished == pc \in {"txended", "done"}

RECURSIVE ParseDigits(_, _)
ParseDigits(cs, n) ==
    IF cs = <<>> THEN n ELSE ParseDigits(Tail(cs), 16 * n + HexVal(Head(cs)))

(* the number a 0x-prefixed hexadecimal string denotes *)
ParseHex(str) == ParseDigits(SubSeq(str, 3, Len(str)), 0)

RECURSIVE AnyError(_)
(* whether a frame of the call tree, or one below it, failed *)
AnyError(f) ==
    f.Error \/ \E i \in 1..Len(f.Calls) : AnyError(f.Calls[i])

----------------------------------------------------------------------------
(* C1: the first SSTORE observed for an (account, key) captures before =    *)
(* the state's value of that slot at that moment, whether or not the        *)
(* account already has an entry, and every SSTORE sets after = the written  *)
(* value.                                                                   *)
C1_StorageFirstTouchPerKey ==
    /\ \A a \in DOMAIN accounts : \A k \in DOMAIN accounts[a].storage :
           accounts[a].storage[k].before = firstSlot[a][k]
    /\ (last.ev = "State" /\ last.n = 2) =>
           /\ last.to \in DOMAIN accounts
           /\ last.key \in DOMAIN accounts[last.to].storage
           /\ accounts[last.to].storage[last.key].after = last.val

(* C2: on every account with a recorded code change, code.before is the     *)
(* code the state held when the account was first touched by any event, and *)
(* is never absent.                                                         *)
C2_CodeBeforeFromFirstTouch ==
    \A i \in 1..Len(codeEvents) :
        LET a == codeEvents[i].to
        IN  /\ a \in DOMAIN accounts
            /\ accounts[a].code.before # NilBytes
            /\ accounts[a].code.before = firstCode[a]

(* C3: gas is charged once, at the transaction end: at every point an       *)
(* account's balanceDelta is the sum of the value and self-destruct amounts *)
(* of the completed frames, less gasLimit - restGas on the top-level caller *)
(* once CaptureTxEnd has run; no frame's gasUsed enters any balanceDelta.   *)
C3_GasChargedOnceAtTxEnd ==
    \A a \in Addr :
        BalanceDelta(accounts, a) =
            attributed[a]
            - (IF Finished /\ a = top.from THEN gasCharge ELSE 0)

C3_Witness ==
    /\ pc = "done"
    /\ gasCharge > 0
    /\ Len(callstack[1].Calls) = 1
    /\ Len(callstack[1].Calls[1].Calls) = 1
    /\ callstack[1].Calls[1].Calls[1].GasUsed > 0
    /\ BalanceDelta(accounts, top.from) = attributed[top.from] - gasCharge

(* C4: after a complete transaction, nonceDelta[a] = the number of creation *)
(* frames (top-level or nested) whose from is a, plus one if a is the       *)
(* top-level caller of a call that is not a creation.                       *)
C4_NonceDeltaCountsCreations ==
    Finished =>
        \A a \in Addr :
            NonceDelta(accounts, a) =
                created[a]
                + (IF a = top.from /\ ~top.create THEN 1 ELSE 0)

C4_Witness ==
    /\ pc = "done"
    /\ ~top.create
    /\ \E a \in Addr : a # top.from /\ created[a] = 1
                       /\ NonceDelta(accounts, a) = 1
    /\ NonceDelta(accounts, top.from) = 1

(* C5: in the report every account with a non-zero balanceDelta has         *)
(* balance.to - balance.from = balanceDelta, and balanceDelta is the sum of *)
(* the account's attributed events, each counted once.                      *)
C5_BalanceRoundTrip ==
    pc = "done" =>
        \A a \in DOMAIN accounts :
            accounts[a].balanceDelta # 0 =>
                LET r == result[AddrHex(a)].Balance
                IN  /\ ~r.eq
                    /\ ParseHex(r.To) - ParseHex(r.From)
                           = accounts[a].balanceDelta
                    /\ accounts[a].balanceDelta =
                           attributed[a]
                           - (IF a = top.from THEN gasCharge ELSE 0)

(* C6: when the transaction's one code event is a successful creation by A  *)
(* of a contract C that had no code, deploying runtime code R, the report   *)
(* shows A's nonce incremented by one and report[C].code = {from: "", to:   *)
(* hex(R)}, for a top-level creation and for a nested one.                  *)
C6_CreationScenario ==
    (/\ pc = "done"
     /\ Len(codeEvents) = 1
     /\ IsCreate(codeEvents[1].kind)
     /\ ~AnyError(callstack[1])
     /\ GetCode(InitState, codeEvents[1].to) = NilBytes) =>
        LET e == codeEvents[1]
            n == result[AddrHex(e.from)].Nonce
        IN  /\ result[AddrHex(e.to)].Code
                   = fromTo(<<>>, EncodeToString(e.code))
            /\ ~n.eq
            /\ (created[e.from] = 1 /\ (e.from # top.from \/ top.create)) =>
                   ParseHex(n.To) - ParseHex(n.From) = 1

(* C7: when a self-destruct frame of a contract C holding non-empty code P  *)
(* exits (and nothing fails or changes C's code afterwards), the report has *)
(* report[C].code = {from: hex(P), to: ""} and C's balanceDelta went down   *)
(* by the balance the state reported at the exit, whatever touched C before.*)
C7_SelfDestructScenario ==
    (/\ pc = "done"
     /\ Len(codeEvents) = 1
     /\ codeEvents[1].kind = SELFDESTRUCT
     /\ ~AnyError(callstack[1])
     /\ codeEvents[1].code \notin {NilBytes, EmptyBytes}) =>
        LET e == codeEvents[1]
        IN  /\ result[AddrHex(e.to)].Code
                   = fromTo(EncodeToString(e.code), <<>>)
            /\ accounts[e.to].balanceDelta =
                   (attributed[e.to] + e.balance) - e.balance
                   - (IF e.to = top.from THEN gasCharge ELSE 0)

(* C8: once the before value of a storage key (or of an account's code) is  *)
(* captured, no later step changes it; a later recordStorage on the key     *)
(* only overwrites after, with the value written.                           *)
C8_FirstTouchIdempotent ==
    [][\A a \in DOMAIN accounts :
          /\ a \in DOMAIN accounts'
          /\ \A k \in DOMAIN accounts[a].storage :
                /\ k \in DOMAIN accounts'[a].storage
                /\ accounts'[a].storage[k].before = accounts[a].storage[k].before
                /\ (last'.ev = "State" /\ last'.n = 2 /\ last'.to = a
                    /\ last'.key = k) =>
                       accounts'[a].storage[k].after = last'.val
                /\ ~(last'.ev = "State" /\ last'.n = 2 /\ last'.to = a
                     /\ last'.key = k) =>
                       accounts'[a].storage[k].after = accounts[a].storage[k].after
          /\ accounts[a].code.before # NilBytes =>
                accounts'[a].code.before = accounts[a].code.before
      ]_vars

C8_Witness ==
    /\ last.ev = "State"
    /\ last.n = 2
    /\ last.seen
    /\ accounts[last.to].storage[last.key].after = last.val
    /\ accounts[last.to].storage[last.key].before # last.val
    /\ GetState(st, last.to, last.key) = last.val

(* C9: CaptureExit and CaptureEnd record a completed frame's balance and    *)
(* code changes the same way whether the frame failed or not, and no step   *)
(* removes an entry, a storage key, a captured code.before or a nonce       *)
(* increment recorded earlier.                                              *)
C9_RevertsNotReconciled ==
    [][/\ last'.ev \in {"Exit", "End"} =>
            /\ \A a \in Addr :
                  BalanceDelta(accounts', a) - BalanceDelta(accounts, a)
                      = attributed'[a] - attributed[a]
            /\ IsCreate(last'.typ) =>
                  /\ last'.to \in DOMAIN accounts'
                  /\ accounts'[last'.to].code.after =
                        IF last'.ev = "Exit"
                        THEN codeEvents'[Len(codeEvents')].input
                        ELSE codeEvents'[Len(codeEvents')].code
            /\ last'.typ = SELFDESTRUCT =>
                  /\ last'.to \in DOMAIN accounts'
                  /\ accounts'[last'.to].code.after = EmptyBytes
       /\ \A a \in DOMAIN accounts :
            /\ a \in DOMAIN accounts'
            /\ accounts'[a].nonceDelta >= accounts[a].nonceDelta
            /\ DOMAIN accounts[a].storage \subseteq DOMAIN accounts'[a].storage
            /\ accounts[a].code.before # NilBytes =>
                  accounts'[a].code.before = accounts[a].code.before
      ]_vars

C9_Witness ==
    /\ last.ev = "Exit"
    /\ last.err
    /\ last.typ = CALL
    /\ last.value > 0
    /\ last.from # last.to
    /\ BalanceDelta(accounts, last.to) = last.value
    /\ BalanceDelta(accounts, last.from) = 0 - last.value
    /\ GetBalance(st, last.to) = GetBalance(InitState, last.to)

(* C10: the keys of the report are exactly the accounts named by a recorded *)
(* balance, nonce, code or storage event; an untouched account has no entry.*)
C10_ReportKeysAreTouched ==
    /\ DOMAIN accounts = touched
    /\ pc = "done" =>
          /\ DOMAIN result = {AddrHex(a) : a \in touched}
          /\ \A a \in Addr \ touched : AddrHex(a) \notin DOMAIN result

C10_Witness ==
    /\ pc = "done"
    /\ touched # Addr
    /\ \E a \in touched :
          /\ a # top.from
          /\ result[AddrHex(a)] =
                 [Balance |-> Unchanged, Nonce |-> Unchanged,
                  Code |-> Unchanged, Storage |-> <<>>]

(* C11: a storage key recorded for an account appears in the account's     *)
(* reported storage mapping exactly when its recorded before and after      *)
(* differ, with those two values; nothing else appears in the mapping.      *)
C11_OmissionLaw ==
    pc = "done" =>
        \A a \in DOMAIN accounts :
            LET stor == result[AddrHex(a)].Storage
            IN  /\ \A k \in DOMAIN accounts[a].storage :
                      LET v == accounts[a].storage[k]
                      IN  /\ HashHex(k) \in DOMAIN stor <=> v.before # v.after
                          /\ v.before # v.after =>
                                stor[HashHex(k)] = [From |-> HashHex(v.before),
                                                    To |-> HashHex(v.after)]
                /\ DOMAIN stor \subseteq
                      {HashHex(k) : k \in DOMAIN accounts[a].storage}

C11_Witness ==
    /\ pc = "done"
    /\ \E a \in DOMAIN accounts :
          \E k1, k2 \in DOMAIN accounts[a].storage :
             /\ accounts[a].storage[k1].before = accounts[a].storage[k1].after
             /\ accounts[a].storage[k2].before # accounts[a].storage[k2].after
             /\ HashHex(k1) \notin DOMAIN result[AddrHex(a)].Storage
             /\ HashHex(k2) \in DOMAIN result[AddrHex(a)].Storage

RECURSIVE MovesValue(_)
(* whether a frame of the call tree, or one below it, carries a value > 0 *)
MovesValue(f) ==
    (f.Value # NilInt /\ f.Value > 0)
        \/ \E i \in 1..Len(f.Calls) : MovesValue(f.Calls[i])

(* a finished transaction without value transfer, storage write, creation   *)
(* or self-destruct                                                         *)
PlainTransaction ==
    /\ pc = "done"
    /\ ~MovesValue(callstack[1])
    /\ \A a \in Addr : \A k \in Hash : firstSlot[a][k] = -1
    /\ \A a \in Addr : created[a] = 0
    /\ codeEvents = <<>>

(* C12: after a transaction without value transfer, storage write, creation *)
(* or self-destruct, the only report fields that are not "=" are the        *)
(* sender's balance (exactly when the gas used is not zero) and the         *)
(* sender's nonce; every other entry is all "=" with an empty storage map.  *)
C12_PlainTransactionReport ==
    PlainTransaction =>
        /\ AddrHex(top.from) \in DOMAIN result
        /\ result[AddrHex(top.from)].Balance.eq <=> gasCharge = 0
        /\ ~result[AddrHex(top.from)].Nonce.eq
        /\ result[AddrHex(top.from)].Code = Unchanged
        /\ result[AddrHex(top.from)].Storage = <<>>
        /\ \A a \in Addr \ {top.from} :
              AddrHex(a) \in DOMAIN result =>
                  result[AddrHex(a)] =
                      [Balance |-> Unchanged, Nonce |-> Unchanged,
                       Code |-> Unchanged, Storage |-> <<>>]

C12_Witness ==
    /\ PlainTransaction
    /\ gasCharge > 0
    /\ Len(callstack[1].Calls) = 2
    /\ ~result[AddrHex(top.from)].Balance.eq
    /\ ~result[AddrHex(top.from)].Nonce.eq
    /\ \E a \in Addr \ {top.from, top.to} :
          /\ AddrHex(a) \in DOMAIN result
          /\ result[AddrHex(a)].Balance = Unchanged

----------------------------------------------------------------------------
(* The transfer hooks: WrappedTransferFunc of the earlier delta tracer and  *)
(* of the snapshot logger                                                   *)

MaxTransfers == 3

(* core.CanTransfer / core.Transfer on the state handle *)
coreCanTransfer(db, addr, amount) == GetBalance(db, addr) >= amount

coreTransfer(db, sender, recipient, amount) ==
    LET subbed == [db EXCEPT !.balance[sender] = @ - amount]
    IN  [subbed EXCEPT !.balance[recipient] = @ + amount]

(* delta tracer: transfer, then the deferred two balance records *)
WrappedTransferFunc(acc, db, sender, recipient, amount) ==
    LET db1 == coreTransfer(db, sender, recipient, amount)
        a1 == recordBalanceChange(acc, sender, 0 - amount)
    IN  [accounts |-> recordBalanceChange(a1, recipient, amount), db |-> db1]

newLoggerDiff ==
    [balance |-> [before |-> NilInt, after |-> NilInt], storage |-> <<>>,
     code |-> [before |-> NilBytes, after |-> NilBytes]]

tryInitAddr(acc, addr) ==
    IF addr \notin DOMAIN acc THEN (addr :> newLoggerDiff) @@ acc ELSE acc

(* recordBalance that overwrites before at every call *)
recordBalanceOverwrite(acc, addr, before, after) ==
    LET a1 == tryInitAddr(acc, addr)
    IN  [a1 EXCEPT ![addr].balance = [before |-> before, after |-> after]]

recordBalance(acc, addr, before, after) ==
    LET a1 == tryInitAddr(acc, addr)
        kept == IF a1[addr].balance.before = NilInt THEN before
                ELSE a1[addr].balance.before
    IN  [a1 EXCEPT ![addr].balance = [before |-> kept, after |-> after]]

(* snapshot logger: balances read before, transfer, then the deferred reads *)
(* and the two records                                                      *)
LoggerWrappedTransferFunc(acc, db, sender, recipient, amount) ==
    LET senderBalanceBefore == GetBalance(db, sender)
        recipientBalanceBefore == GetBalance(db, recipient)
        db1 == coreTransfer(db, sender, recipient, amount)
        senderBalanceAfter == GetBalance(db1, sender)
        recipientBalanceAfter == GetBalance(db1, recipient)
        a1 == recordBalance(acc, sender, senderBalanceBefore,
                            senderBalanceAfter)
    IN  [accounts |-> recordBalance(a1, recipient, recipientBalanceBefore,
                                    recipientBalanceAfter),
         db |-> db1]

(* history: the net amount a transfer moves to or from an account *)
movedBy(sender, recipient, amount, a) ==
    (IF a = recipient THEN amount ELSE 0) - (IF a = sender THEN amount ELSE 0)

transferEvent(ev, sender, recipient, amount) ==
    [NoEvent EXCEPT !.ev = ev, !.from = sender, !.to = recipient,
                    !.value = amount]

TracerTransfer ==
    /\ UNCHANGED openFrames
    /\ pc = "new"
    /\ nevents < MaxTransfers
    /\ \E sender \in Addr, recipient \in Addr, amount \in 0..MaxValue :
        LET h == WrappedTransferFunc(accounts, st, sender, recipient, amount)
        IN  /\ coreCanTransfer(st, sender, amount)
            /\ accounts' = h.accounts
            /\ st' = h.db
            /\ attributed' = [a \in Addr |->
                   attributed[a] + movedBy(sender, recipient, amount, a)]
            /\ touched' = touched \cup {sender, recipient}
            /\ last' = transferEvent("TracerTransfer", sender, recipient, amount)
    /\ nevents' = nevents + 1
    /\ UNCHANGED <<env, callstack, gasLimit, snaps, pc, result, top, created,
                   gasCharge, firstCode, firstSlot, codeEvents>>
    /\ UNCHANGED hookVars

LoggerTransfer ==
    /\ UNCHANGED openFrames
    /\ pc = "new"
    /\ nevents < MaxTransfers
    /\ \E sender \in Addr, recipient \in Addr, amount \in 0..MaxValue :
        LET h == LoggerWrappedTransferFunc(logAccounts, logDb, sender,
                                           recipient, amount)
        IN  /\ coreCanTransfer(logDb, sender, amount)
            /\ logAccounts' = h.accounts
            /\ logDb' = h.db
            /\ logMoved' = [a \in Addr |->
                   logMoved[a] + movedBy(sender, recipient, amount, a)]
            /\ logFirst' = [a \in Addr |->
                   IF a \in {sender, recipient} /\ logFirst[a] = NilInt
                   THEN GetBalance(logDb, a) ELSE logFirst[a]]
            /\ last' = transferEvent("LoggerTransfer", sender, recipient, amount)
    /\ nevents' = nevents + 1
    /\ UNCHANGED <<accounts, env, callstack, gasLimit, st, snaps, pc, result,
                   top, touched, created, attributed, gasCharge, firstCode,
                   firstSlot, codeEvents>>

NextTransfer ==
    \/ TracerTransfer
    \/ LoggerTransfer

SpecTransfer == Init /\ [][NextTransfer]_vars

(* C13: every invocation of a transfer hook moves the amount once on the    *)
(* state handle and records it on both accounts: the state balances are the *)
(* initial ones plus the net amounts moved, the delta tracer's balanceDelta *)
(* and the snapshot logger's after - before of every account equal the net  *)
(* amount moved to or from it, and the logger's before is the balance that  *)
(* preceded the account's first transfer.                                   *)
C13_TransferHook ==
    /\ \A a \in Addr :
          /\ GetBalance(st, a) = GetBalance(InitState, a) + attributed[a]
          /\ BalanceDelta(accounts, a) = attributed[a]
          /\ a \in DOMAIN accounts <=> a \in touched
          /\ GetBalance(logDb, a) = GetBalance(InitState, a) + logMoved[a]
          /\ a \in DOMAIN logAccounts <=> logFirst[a] # NilInt
    /\ \A a \in DOMAIN logAccounts :
          /\ logAccounts[a].balance.before = logFirst[a]
          /\ logAccounts[a].balance.after = GetBalance(logDb, a)
          /\ logAccounts[a].balance.after - logAccounts[a].balance.before
                 = logMoved[a]

C13_Witness ==
    /\ nevents = MaxTransfers
    /\ last.ev = "LoggerTransfer"
    /\ last.from = last.to
    /\ last.value > 0
    /\ logMoved[last.from] # 0
    /\ \E a \in DOMAIN accounts : accounts[a].balanceDelta = 1
    /\ \E a \in DOMAIN logAccounts :
          logAccounts[a].balance.after - logAccounts[a].balance.before = 0 - 1

(* C14: every balance or nonce written into a {from, to} pair is rendered   *)
(* as "0x" followed by the hexadecimal digits of the value (100 as 0x64),   *)
(* and code as lowercase hexadecimal without a prefix.                      *)
C14_NumbersRenderAsHex ==
    pc = "done" =>
        \A a \in DOMAIN accounts :
            LET r == result[AddrHex(a)]
                d == accounts[a]
            IN  /\ d.balanceDelta # 0 =>
                      /\ r.Balance.To = <<"0", "x">> \o Text16(GetBalance(st, a))
                      /\ r.Balance.From =
                            <<"0", "x">> \o Text16(GetBalance(st, a) - d.balanceDelta)
                /\ (d.nonceDelta # 0 /\ GetNonce(st, a) >= d.nonceDelta) =>
                      /\ r.Nonce.To = <<"0", "x">> \o HexDigits(GetNonce(st, a))
                      /\ r.Nonce.From =
                            <<"0", "x">> \o HexDigits(GetNonce(st, a) - d.nonceDelta)
                /\ ~r.Code.eq =>
                      /\ r.Code.From = EncodeToString(d.code.before)
                      /\ r.Code.To = EncodeToString(d.code.after)
                      /\ \A i \in 1..Len(r.Code.To) :
                            r.Code.To[i] \in {HexChars[j] : j \in 1..16}

(* the fields CaptureEnter was given for a frame of the tracer's call stack *)
SameFrame(f, e) ==
    f.Type = e.typ /\ f.From = e.from /\ f.To = e.to /\ f.Value = e.value

(* C15: the tracer's open frames are the CaptureEnter calls not yet exited, *)
(* in order; the frame CaptureExit processes is the one opened by the most  *)
(* recent of them, it is closed by that exit, and the diff store changes    *)
(* by the records of that frame's type, from, to and value and nothing else.*)
C15_ExitUsesInnermostFrame ==
    [][/\ Len(callstack) = Len(openFrames) + 1
       /\ \A i \in 1..Len(openFrames) : SameFrame(callstack[i + 1], openFrames[i])
       /\ last'.ev = "Exit" =>
            LET e == openFrames[Len(openFrames)]
                parent == callstack'[Len(callstack')]
                used == parent.Calls[Len(parent.Calls)]
                atExit == IF last'.err THEN snaps[Len(snaps)] ELSE st
                moves == (IsCreate(e.typ) \/ e.typ = CALL) /\ e.value # NilInt
                named == (IF moves THEN {e.from, e.to} ELSE {})
                         \cup (IF IsCreate(e.typ) \/ e.typ = SELFDESTRUCT
                               THEN {e.to} ELSE {})
            IN  /\ SameFrame(used, e)
                /\ openFrames' = SubSeq(openFrames, 1, Len(openFrames) - 1)
                /\ Len(parent.Calls) = Len(callstack[Len(callstack')].Calls) + 1
                /\ DOMAIN accounts' = DOMAIN accounts \cup named
                /\ \A a \in DOMAIN accounts \ named : accounts'[a] = accounts[a]
                /\ \A a \in Addr :
                      BalanceDelta(accounts', a) - BalanceDelta(accounts, a) =
                          IF moves THEN movedBy(e.from, e.to, e.value, a)
                          ELSE IF e.typ = SELFDESTRUCT /\ a = e.to
                          THEN 0 - GetBalance(atExit, a)
                          ELSE 0
                /\ IsCreate(e.typ) => accounts'[e.to].code.after = InitCode
                /\ e.typ = SELFDESTRUCT => accounts'[e.to].code.after = EmptyBytes
      ]_vars

C15_Witness ==
    /\ last.ev = "Exit"
    /\ Len(callstack) = 1
    /\ Len(callstack[1].Calls) = 2
    /\ callstack[1].Calls[1].To # callstack[1].Calls[2].To
    /\ callstack[1].Calls[1].Value = 0
    /\ callstack[1].Calls[2].Value = 1
    /\ BalanceDelta(accounts, callstack[1].Calls[2].To) = 1
    /\ BalanceDelta(accounts, callstack[1].Calls[1].To) = 0

(* C16: a transaction-start event, a fault event, an opcode event that is   *)
(* not SSTORE and an SSTORE event with fewer than two stack operands leave  *)
(* the diff store as it was.                                                *)
C16_NonMutatingEvents ==
    [][(\/ last'.ev \in {"TxStart", "Fault"}
        \/ (last'.ev = "State" /\ last'.typ # SSTORE)
        \/ (last'.ev = "State" /\ last'.typ = SSTORE /\ last'.n < 2))
           => accounts' = accounts
      ]_vars

C16_Witness ==
    /\ last.ev = "State"
    /\ last.typ = SSTORE
    /\ last.n < 2
    /\ nevents = 2
    /\ last.to \notin DOMAIN accounts
    /\ accounts # <<>>

(* C17: an SSTORE event with at least two stack operands makes its record   *)
(* on the executing contract, with key = the top of the stack and value =   *)
(* the operand below it; no other account and no other key changes.         *)
C17_SStoreOperands ==
    [][(last'.ev = "State" /\ last'.typ = SSTORE /\ last'.n = 2) =>
          LET c == last'.to
              key == last'.key
          IN  /\ c = callstack[Len(callstack)].To
              /\ DOMAIN accounts' = DOMAIN accounts \cup {c}
              /\ \A a \in DOMAIN accounts \ {c} : accounts'[a] = accounts[a]
              /\ DOMAIN accounts'[c].storage =
                    (IF c \in DOMAIN accounts THEN DOMAIN accounts[c].storage
                     ELSE {}) \cup {key}
              /\ accounts'[c].storage[key].after = last'.val
              /\ c \in DOMAIN accounts =>
                    /\ \A k \in DOMAIN accounts[c].storage \ {key} :
                          accounts'[c].storage[k] = accounts[c].storage[k]
                    /\ accounts'[c].balanceDelta = accounts[c].balanceDelta
                    /\ accounts'[c].nonceDelta = accounts[c].nonceDelta
                    /\ accounts'[c].code = accounts[c].code
      ]_vars

C17_Witness ==
    /\ last.ev = "State"
    /\ last.typ = SSTORE
    /\ last.n = 2
    /\ last.key # last.val
    /\ last.key = 0
    /\ DOMAIN accounts[last.to].storage = {0}
    /\ accounts[last.to].storage[0].after = last.val
    /\ GetState(st, last.to, 0) = last.val

(* the tracer's event stream next to invocations of the logger's hook *)
NextLifecycle ==
    \/ Next
    \/ LoggerTransfer

SpecLifecycle == Init /\ [][NextLifecycle]_vars

(* whether the event just delivered records code / storage on an account *)
CodeEventOn(ev, a) ==
    /\ ev.ev \in {"Exit", "End"}
    /\ ev.to = a
    /\ IsCreate(ev.typ) \/ ev.typ = SELFDESTRUCT

StoreEventOn(ev, a) ==
    ev.ev = "State" /\ ev.typ = SSTORE /\ ev.n = 2 /\ ev.to = a

(* C18: tryInit on an account without entry creates one with zero balance   *)
(* delta, zero nonce delta, empty storage and absent code, touching no      *)
(* other entry; on an account with an entry it changes nothing and reports  *)
(* that it did not create it. An entry appears in the step of the first     *)
(* event that touches the account, holding only that event's records, and   *)
(* it is present in every later state.                                      *)
C18_EntryLifecycle ==
    [][/\ \A a \in Addr :
            LET r == tryInitAccDiff(accounts, a)
                g == tryInitAddr(logAccounts, a)
            IN  /\ a \in DOMAIN accounts => ~r.ok /\ r.accounts = accounts
                /\ a \notin DOMAIN accounts =>
                      /\ r.ok
                      /\ DOMAIN r.accounts = DOMAIN accounts \cup {a}
                      /\ r.accounts[a] =
                            [balanceDelta |-> 0, nonceDelta |-> 0,
                             storage |-> <<>>,
                             code |-> [before |-> NilBytes, after |-> NilBytes]]
                      /\ \A b \in DOMAIN accounts : r.accounts[b] = accounts[b]
                /\ a \in DOMAIN logAccounts => g = logAccounts
                /\ a \notin DOMAIN logAccounts =>
                      /\ DOMAIN g = DOMAIN logAccounts \cup {a}
                      /\ g[a].balance = [before |-> NilInt, after |-> NilInt]
                      /\ g[a].storage = <<>>
                      /\ g[a].code = [before |-> NilBytes, after |-> NilBytes]
                      /\ \A b \in DOMAIN logAccounts : g[b] = logAccounts[b]
       /\ DOMAIN accounts \subseteq DOMAIN accounts'
       /\ DOMAIN logAccounts \subseteq DOMAIN logAccounts'
       /\ DOMAIN accounts' \ DOMAIN accounts = touched' \ touched
       /\ DOMAIN logAccounts' \ DOMAIN logAccounts =
             {a \in Addr : logFirst[a] = NilInt /\ logFirst'[a] # NilInt}
       /\ \A a \in DOMAIN accounts' \ DOMAIN accounts :
             LET d == accounts'[a]
                 atTxEnd == last'.ev = "TxEnd" /\ a = top.from
             IN  /\ d.nonceDelta = (created'[a] - created[a])
                        + (IF atTxEnd /\ ~top.create THEN 1 ELSE 0)
                 /\ d.balanceDelta = (attributed'[a] - attributed[a])
                        - (IF atTxEnd THEN gasCharge' ELSE 0)
                 /\ DOMAIN d.storage =
                        IF StoreEventOn(last', a) THEN {last'.key} ELSE {}
                 /\ ~CodeEventOn(last', a) =>
                        d.code = [before |-> NilBytes, after |-> NilBytes]
      ]_vars

C18_Witness ==
    /\ pc = "done"
    /\ Len(codeEvents) = 1
    /\ codeEvents[1].kind = SELFDESTRUCT
    /\ ~codeEvents[1].err
    /\ GetCode(st, codeEvents[1].to) = NilBytes
    /\ codeEvents[1].to \in DOMAIN accounts
    /\ AddrHex(codeEvents[1].to) \in DOMAIN result
    /\ logAccounts # <<>>

RECURSIVE SumDelta(_, _)
(* the sum of balanceDelta over the accounts 1..n *)
SumDelta(acc, n) ==
    IF n = 0 THEN 0 ELSE BalanceDelta(acc, n) + SumDelta(acc, n - 1)

RECURSIVE Destroyed(_)
(* the total of the balances the state reported at self-destruct exits *)
Destroyed(evs) ==
    IF evs = <<>> THEN 0
    ELSE (IF Head(evs).kind = SELFDESTRUCT THEN Head(evs).balance ELSE 0)
         + Destroyed(Tail(evs))

(* C19: value transfers are zero-sum: in every reachable state the sum of   *)
(* balanceDelta over all accounts is minus the gas charged at TxEnd (zero   *)
(* before it) minus the balances zeroed by self-destruct frames.            *)
C19_ConservationOfValue ==
    SumDelta(accounts, NumAddr) =
        0 - (IF Finished THEN gasCharge ELSE 0) - Destroyed(codeEvents)

C19_Witness ==
    /\ pc = "done"
    /\ top.value = 1
    /\ top.from # top.to
    /\ gasCharge = 1
    /\ Destroyed(codeEvents) > 0
    /\ BalanceDelta(accounts, top.from) = 0 - 2
    /\ SumDelta(accounts, NumAddr) = 0 - 1 - Destroyed(codeEvents)

(* C20: for every account whose report shows a nonce change, the recorded   *)
(* nonceDelta is at most the state's nonce at report time, so the unsigned  *)
(* subtraction does not wrap and nonce.from <= nonce.to.                    *)
C20_NoNonceWrap ==
    pc = "done" =>
        \A a \in DOMAIN accounts :
            accounts[a].nonceDelta # 0 =>
                /\ accounts[a].nonceDelta <= GetNonce(st, a)
                /\ ParseHex(result[AddrHex(a)].Nonce.From)
                       <= ParseHex(result[AddrHex(a)].Nonce.To)

====
